---- MODULE Spec2Model ----
(***************************************************************************)
(* A model of the storage substrate of luna-lang's front end:              *)
(*   - Arena<T, N>   (parse/src/arena.rs): the segmented concurrent pool,  *)
(*   - FileCache     (parse/src/span.rs): the path -> Id<Source> cache.    *)
(*                                                                         *)
(* An arena is a record; every atomic step of Arena::insert is a pure      *)
(* operator on (arena, thread-local frame), so that the same steps drive   *)
(* the concurrent specification (one action per atomic step) and the       *)
(* single-threaded ones (the steps run to completion inside one action).   *)
(***************************************************************************)
EXTENDS Integers, Sequences, FiniteSets, TLC

\* ------------------------------------------------------------------ bounds
\* Threads that call Arena::insert concurrently.
NThreads == 2
\* Insert calls per run of the concurrent specification.
MaxInserts == 4
\* Insert calls per run of the single-threaded specification.
MaxSeqInserts == 11
\* Insert calls on the second arena.
MaxOtherInserts == 3
\* Threads that call FileCache::resolve, the paths they resolve, and the
\* resolve calls per run.
NResolvers == 2
NPaths == 2
MaxResolves == 4
\* Length of the texts that are lexed exhaustively.
MaxLen == 3
\* Paths resolved by the cache used by one thread.
MaxSeqPaths == 10

\* --------------------------------------------------------- program constants
\* Segment capacity of the arena under test: Arena::<u32, 4>.
N == 4
\* Segment capacity of the cache's arena: files: Arena<Source, 8>.
CacheN == 8

VARIABLES
  arena,   \* the Arena: [cap, inst, next, current, rest, nalloc, mem]
  loc,     \* per thread: the frame of its insert call
  hist,    \* completed insert calls, in order of return
  calls,   \* insert calls started so far
  got,     \* the last Arena::get: [k, id, out], k = 0 before any
  torn,    \* what Drop did: [done, drops, frees]
  other,   \* a second Arena of the same element type and capacity
  ohist,   \* the insert calls completed on the second arena
  cache,   \* the FileCache: [files, paths, lock]
  cloc,    \* per thread: the frame of its resolve call
  fs,      \* the paths whose file can be read right now
  chist,   \* the insert calls completed on cache.files
  okreads, \* per path: the reads of its file that succeeded
  succ,    \* per path: the resolve calls that returned Ok
  first,   \* per path: the Id its first successful resolve returned
  failed,  \* the paths some resolve call returned an error for
  last,    \* the last resolve call that returned: [n, path, ok, id, read]
  lex,     \* the lexer's run: [status, text, source, pos, tokens]
  cgot     \* the last call on the cache used by one thread: [op, path, id, out]

twoVars == <<other, ohist>>

arenaVars == <<arena, loc, hist, calls, got, torn>>

cacheVars == <<cache, cloc, fs, chist, okreads, succ, first, failed, last>>

lexVars == <<lex>>

getVars == <<cgot>>

vars == <<arenaVars, twoVars, cacheVars, lexVars, getVars>>

Threads == 1..NThreads

\* ------------------------------------------------------------------ values
\* A read that the language leaves undefined (outside the allocation, or of a
\* slot nothing was written to) may yield anything; Junk stands for every bit
\* pattern that is no inserted value.
Junk == -1
\* get panicked (boxcar's index check).
Panic == -2
\* No segment: a null pointer in a frame.
NoSeg == <<"none", 0>>

\* struct Id { seg, idx }
Id(seg, idx) == [seg |-> seg, idx |-> idx]

\* No get was made yet (k = 0); the arena was not dropped yet.
NoGet == [k |-> 0, id |-> Id(0, 0), out |-> Junk]
NotTorn == [done |-> FALSE, drops |-> <<>>, frees |-> <<>>]

\* ------------------------------------------------------------------- arena
\* alloc_segment: a fresh allocation of cap slots; the pointer is named by the
\* owning instance and the number of segments it allocated before.
alloc_segment(A) == <<A.inst, A.nalloc>>

\* Arena::new
ArenaNew(inst, cap) ==
  [cap |-> cap, inst |-> inst, next |-> 0, current |-> <<inst, 0>>,
   rest |-> <<>>, nalloc |-> 1, mem |-> [c \in {} |-> 0]]

\* ptr.add(slot).write(value): the cell <<segment, index>> now holds value.
\* The index is not compared with the capacity: the write goes where the
\* pointer arithmetic points.
WriteCell(mem, cell, value) ==
  [c \in (DOMAIN mem) \cup {cell} |-> IF c = cell THEN value ELSE mem[c]]

\* The frame of a thread that is not inside insert.
IdleFrame ==
  [pc |-> "idle", val |-> 0, v |-> 0, new |-> 0, old |-> NoSeg, slot |-> 0,
   ptr |-> NoSeg, idseg |-> 0]

\* insert, line 58: self.next.fetch_add(1); the result is discarded.
StepFetchAdd(A, L, value) ==
  [a |-> [A EXCEPT !.next = A.next + 1],
   l |-> [IdleFrame EXCEPT !.pc = "load", !.val = value]]

\* fetch_update: the initial load of the counter.
StepLoad(A, L) ==
  [a |-> A, l |-> [L EXCEPT !.pc = "closure", !.v = A.next]]

\* fetch_update's closure on the loaded v, lines 62-68. With v > N it swaps a
\* fresh segment in as current (an atomic swap) and goes on to push the old
\* one; otherwise it proposes v + 1.
StepClosure(A, L) ==
  IF L.v > A.cap
  THEN [a |-> [A EXCEPT !.current = alloc_segment(A), !.nalloc = A.nalloc + 1],
        l |-> [L EXCEPT !.pc = "push", !.old = A.current]]
  ELSE [a |-> A, l |-> [L EXCEPT !.pc = "cas", !.new = L.v + 1]]

\* self.rest.push(old), then Some(0).
StepPush(A, L) ==
  [a |-> [A EXCEPT !.rest = Append(A.rest, L.old)],
   l |-> [L EXCEPT !.pc = "cas", !.new = 0, !.old = NoSeg]]

\* fetch_update's compare-exchange: on success the counter takes the proposed
\* value and fetch_update returns Ok(previous), which is the slot; on failure
\* the closure runs again on the value found. Only failures caused by another
\* thread's update are modelled (a weak compare-exchange may also fail
\* spuriously, which re-runs the closure in the same way).
StepCas(A, L) ==
  IF A.next = L.v
  THEN [a |-> [A EXCEPT !.next = L.new],
        l |-> [L EXCEPT !.pc = "loadcur", !.slot = L.v]]
  ELSE [a |-> A, l |-> [L EXCEPT !.pc = "closure", !.v = A.next]]

\* self.current.load(SeqCst), line 74-75.
StepLoadCurrent(A, L) ==
  [a |-> A, l |-> [L EXCEPT !.pc = "write", !.ptr = A.current]]

\* .cast::<T>().add(slot).write(value), lines 76-78. Two calls that write the
\* same cell leave the later write's value there.
StepWrite(A, L) ==
  [a |-> [A EXCEPT !.mem = WriteCell(A.mem, <<L.ptr, L.slot>>, L.val)],
   l |-> [L EXCEPT !.pc = "len"]]

\* Id { seg: self.rest.len(), idx: slot }, lines 80-84.
StepLen(A, L) ==
  [a |-> A, l |-> [L EXCEPT !.pc = "done", !.idseg = Len(A.rest)]]

\* One atomic step of an insert call that has started.
InsertStep(A, L) ==
  CASE L.pc = "load" -> StepLoad(A, L)
    [] L.pc = "closure" -> StepClosure(A, L)
    [] L.pc = "push" -> StepPush(A, L)
    [] L.pc = "cas" -> StepCas(A, L)
    [] L.pc = "loadcur" -> StepLoadCurrent(A, L)
    [] L.pc = "write" -> StepWrite(A, L)
    [] L.pc = "len" -> StepLen(A, L)

\* An insert that no other thread interleaves with: its steps in order.
RECURSIVE RunInsert(_, _)
RunInsert(A, L) ==
  IF L.pc = "done" THEN [a |-> A, l |-> L]
  ELSE LET r == InsertStep(A, L) IN RunInsert(r.a, r.l)

\* Arena::insert, called alone.
Insert(A, value) ==
  LET r == StepFetchAdd(A, IdleFrame, value) IN RunInsert(r.a, r.l)

\* What a finished insert call did: the value, the cell it wrote and the Id it
\* returned.
Done(L) ==
  [val |-> L.val, pseg |-> L.ptr, idx |-> L.slot, id |-> Id(L.idseg, L.slot)]

\* Arena::get, lines 87-94. The segment is the current one when id.seg equals
\* rest.len() and rest[id.seg] otherwise (boxcar panics on an index past the
\* end); the slot is then read without any check. Reading inside the
\* allocation what an insert wrote yields that value. Reading outside the
\* allocation, or a slot never written, is undefined: it may yield what was
\* last written through that address, if anything was, or anything else (Junk).
GetSegment(A, id) ==
  IF id.seg = Len(A.rest) THEN A.current ELSE A.rest[id.seg + 1]

GetOutcomes(A, id) ==
  IF id.seg > Len(A.rest) THEN {Panic}
  ELSE LET cell == <<GetSegment(A, id), id.idx>> IN
       IF id.idx < A.cap /\ cell \in DOMAIN A.mem
       THEN {A.mem[cell]}
       ELSE {Junk} \cup (IF cell \in DOMAIN A.mem THEN {A.mem[cell]} ELSE {})

\* Drop for Arena, lines 97-118: for every retired segment, in order, and then
\* for the current one, drop_in_place on each of the slots 0..N-1 and dealloc.
SegmentsAtDrop(A) == Append(A.rest, A.current)

RECURSIVE DropCells(_, _)
DropCells(segs, cap) ==
  IF segs = <<>> THEN <<>>
  ELSE [i \in 1..cap |-> <<Head(segs), i - 1>>] \o DropCells(Tail(segs), cap)

DropArena(A) ==
  [done |-> TRUE, drops |-> DropCells(SegmentsAtDrop(A), A.cap),
   frees |-> SegmentsAtDrop(A)]

\* --------------------------------------------------------------- FileCache
Paths == 1..NPaths
Resolvers == 1..NResolvers

\* The Source built from the text read from path p.
Content(p) == 200 + p

\* FileCache::new: an empty arena, an empty path table, the RwLock free (0).
FileCacheNew ==
  [files |-> ArenaNew("f", CacheN), paths |-> [p \in {} |-> Id(0, 0)],
   lock |-> 0]

\* The frame of a thread that is not inside resolve.
IdleResolve == [pc |-> "idle", path |-> 0, read |-> FALSE]

\* resolve(path) is entered: the thread goes on to self.paths.write() and
\* blocks there until the lock is granted.
StepCall(p) == [pc |-> "wait", path |-> p, read |-> FALSE]

\* An RwLock whose write() is granted whatever the lock's state.
CanLockAlways(C) == TRUE

\* self.paths.write(): granted when no thread holds the lock.
CanLock(C) == C.lock = 0

\* resolve, line 32: the write guard is taken for path p by thread t.
StepAcquire(C, t, p) ==
  [c |-> [C EXCEPT !.lock = t],
   l |-> [pc |-> "locked", path |-> p, read |-> FALSE],
   res |-> [ok |-> FALSE, id |-> Id(0, 0)]]

\* Lines 33-34: the path is in the table; Ok(*id), and the guard is dropped.
StepHit(C, L) ==
  [c |-> [C EXCEPT !.lock = 0],
   l |-> [L EXCEPT !.pc = "ret"],
   res |-> [ok |-> TRUE, id |-> C.paths[L.path]]]

\* Line 36, read_to_string succeeded: go on to build and store the Source.
StepReadOk(C, L) ==
  [c |-> C,
   l |-> [L EXCEPT !.pc = "store", !.read = TRUE],
   res |-> [ok |-> FALSE, id |-> Id(0, 0)]]

\* A resolve that caches a failed read as an empty Source under a default id.
StepReadFailCached(C, L) ==
  [c |-> [C EXCEPT !.paths = [q \in (DOMAIN C.paths) \cup {L.path} |->
                                IF q = L.path THEN Id(0, 0) ELSE C.paths[q]],
                   !.lock = 0],
   l |-> [L EXCEPT !.pc = "ret", !.read = TRUE],
   res |-> [ok |-> FALSE, id |-> Id(0, 0)]]

\* Line 36, read_to_string failed: `?` returns the error; the guard is dropped
\* on the way out and nothing else was touched.
StepReadFail(C, L) ==
  [c |-> [C EXCEPT !.lock = 0],
   l |-> [L EXCEPT !.pc = "ret", !.read = TRUE],
   res |-> [ok |-> FALSE, id |-> Id(0, 0)]]

\* A resolve that stores the Source but forgets paths.insert.
StepStoreNoRecord(C, L) ==
  LET r == Insert(C.files, Content(L.path))
  IN [c |-> [C EXCEPT !.files = r.a, !.lock = 0],
      l |-> [L EXCEPT !.pc = "ret"],
      res |-> [ok |-> TRUE, id |-> Done(r.l).id],
      done |-> Done(r.l)]

\* Lines 37-40: files.insert(source), paths.insert(path, id), Ok(id); the
\* guard is dropped. Only the holder of the write guard calls files.insert, so
\* the insert runs alone.
StepStore(C, L) ==
  LET r == Insert(C.files, Content(L.path))
      id == Done(r.l).id
  IN [c |-> [C EXCEPT !.files = r.a,
                      !.paths = [q \in (DOMAIN C.paths) \cup {L.path} |->
                                   IF q = L.path THEN id ELSE C.paths[q]],
                      !.lock = 0],
      l |-> [L EXCEPT !.pc = "ret"],
      res |-> [ok |-> TRUE, id |-> id],
      done |-> Done(r.l)]

\* resolve, lines 30-42, called by the only thread that uses the cache, on a
\* path whose file can be read: the guard is free, and the call is a hit or a
\* read and a store.
ResolveAlone(C, p) ==
  LET a == StepAcquire(C, 1, p) IN
    IF p \in DOMAIN a.c.paths
    THEN LET h == StepHit(a.c, a.l) IN [c |-> h.c, id |-> h.res.id, new |-> <<>>]
    ELSE LET r == StepReadOk(a.c, a.l)
             st == StepStore(r.c, r.l)
         IN [c |-> st.c, id |-> st.res.id, new |-> <<st.done>>]

\* FileCache::get, lines 26-28: self.files.get(id).
CacheGetOutcomes(C, id) == GetOutcomes(C.files, id)

\* The cache was not called yet by its only thread.
NoCacheCall == [op |-> "none", path |-> 0, id |-> Id(0, 0), out |-> 0]

\* No resolve call returned yet (n = 0).
NoResolve == [n |-> 0, path |-> 0, ok |-> FALSE, id |-> Id(0, 0), read |-> FALSE]

\* ------------------------------------------------------------------- lexer
\* The source text is a sequence of characters, each a string; offsets count
\* from 0 and At(s, p) is the character at offset p. The characters that a
\* TLA+ string cannot hold directly have names.
EOI == "EOI"
NL == "NL"
TAB == "TAB"
DQ == "DQ"
SQ == "SQ"
BSL == "BSL"

At(s, p) == IF p < Len(s) THEN s[p + 1] ELSE EOI

\* The text from offset p up to offset e (exclusive).
Slice(s, p, e) == SubSeq(s, p + 1, e)

\* Token, as the lexer builds it: a kind, the text it carries (the digits of
\* a number, the decoded content of a string, the name of an operator) and,
\* for Indent, the count.
Tok(kind, text, n) == [kind |-> kind, text |-> text, n |-> n]

\* The outcome of a parser at an offset: whether it matched, where the match
\* ends, and its output.
NoMatch == [ok |-> FALSE, end |-> 0, tok |-> Tok("None", <<>>, 0)]
Match(e, tok) == [ok |-> TRUE, end |-> e, tok |-> tok]

Digits == {"0", "1", "2", "3", "4", "5", "6", "7", "8", "9"}

Letters ==
  {"a", "b", "c", "d", "e", "f", "g", "h", "i", "j", "k", "l", "m", "n", "o",
   "p", "q", "r", "s", "t", "u", "v", "w", "x", "y", "z", "S"}

CR == "CR"

\* text::newline() matches a line break.
Newlines == {NL, CR}

\* char::is_whitespace, which padded() skips.
Whitespace == {" ", TAB} \cup Newlines

\* The end of the longest run of characters of `set` that starts at p.
RECURSIVE RunEnd(_, _, _)
RunEnd(s, p, set) == IF At(s, p) \in set THEN RunEnd(s, p + 1, set) ELSE p

\* padded(): the whitespace skipped before and after a parser.
SkipWs(s, p) == RunEnd(s, p, Whitespace)

\* just(lit) at p.
Just(s, p, lit) == p + Len(lit) <= Len(s) /\ Slice(s, p, p + Len(lit)) = lit

\* text::int(10): a non-zero digit and the digits after it, or a single 0.
\* The end of the match, or -1.
IntEnd(s, p) ==
  IF At(s, p) \in Digits \ {"0"} THEN RunEnd(s, p + 1, Digits)
  ELSE IF At(s, p) = "0" THEN p + 1
  ELSE -1

DigitVal(c) ==
  CASE c = "0" -> 0 [] c = "1" -> 1 [] c = "2" -> 2 [] c = "3" -> 3
    [] c = "4" -> 4 [] c = "5" -> 5 [] c = "6" -> 6 [] c = "7" -> 7
    [] c = "8" -> 8 [] c = "9" -> 9

\* i64::MAX = 9223372036854775807, as digits.
I64Max ==
  <<"9", "2", "2", "3", "3", "7", "2", "0", "3", "6", "8", "5", "4", "7", "7",
    "5", "8", "0", "7">>

\* d <= e for digit strings of the same length.
RECURSIVE DigitsLeq(_, _)
DigitsLeq(d, e) ==
  IF d = <<>> THEN TRUE
  ELSE IF DigitVal(Head(d)) # DigitVal(Head(e))
       THEN DigitVal(Head(d)) < DigitVal(Head(e))
       ELSE DigitsLeq(Tail(d), Tail(e))

\* v.parse::<i64>() is Ok: the digits (no sign, no leading zero) denote a
\* number up to i64::MAX. The token carries the number, which its digits name.
ParsesAsI64(d) ==
  Len(d) < Len(I64Max) \/ (Len(d) = Len(I64Max) /\ DigitsLeq(d, I64Max))

\* float, lines 37-46: int, '.', int; format!("{v}.{d}").parse::<f64>() never
\* fails on such a text. The token carries the number its text names.
Float(s, p) ==
  LET e1 == IntEnd(s, p)
      e2 == IF e1 >= 0 /\ At(s, e1) = "." THEN IntEnd(s, e1 + 1) ELSE -1
  IN IF e2 >= 0 THEN Match(e2, Tok("Float", Slice(s, p, e2), 0)) ELSE NoMatch

\* int, lines 48-55: int, an optional 'i'; Int(v) or, when v does not fit
\* i64, Error(v).
IntLit(s, p) ==
  LET e1 == IntEnd(s, p) IN
    IF e1 < 0 THEN NoMatch
    ELSE LET d == Slice(s, p, e1)
             e2 == IF At(s, e1) = "i" THEN e1 + 1 ELSE e1
         IN Match(e2, Tok(IF ParsesAsI64(d) THEN "Int" ELSE "Error", d, 0))

\* arithmetic, lines 59-65: the operator at p, or "" when there is none.
Arithmetic(s, p) ==
  CASE At(s, p) = "+" -> "Add"
    [] At(s, p) = "-" -> "Sub"
    [] At(s, p) = "*" -> "Mul"
    [] At(s, p) = "/" -> "Div"
    [] At(s, p) = "%" -> "Mod"
    [] OTHER -> ""

\* comparison, lines 67-74, in the order of the choice.
Comparison(s, p) ==
  CASE Just(s, p, <<"!", "=">>) -> Match(p + 2, Tok("Op", <<"Neq">>, 0))
    [] Just(s, p, <<"=", "=">>) -> Match(p + 2, Tok("Op", <<"Eq">>, 0))
    [] Just(s, p, <<"<", "=">>) -> Match(p + 2, Tok("Op", <<"Leq">>, 0))
    [] Just(s, p, <<">", "=">>) -> Match(p + 2, Tok("Op", <<"Geq">>, 0))
    [] Just(s, p, <<">">>) -> Match(p + 1, Tok("Op", <<"Gt">>, 0))
    [] Just(s, p, <<"<">>) -> Match(p + 1, Tok("Op", <<"Lt">>, 0))
    [] OTHER -> NoMatch

\* logical, lines 76-80.
Logical(s, p) ==
  CASE Just(s, p, <<"n", "o", "t">>) -> Match(p + 3, Tok("Op", <<"Not">>, 0))
    [] Just(s, p, <<"a", "n", "d">>) -> Match(p + 3, Tok("Op", <<"And">>, 0))
    [] Just(s, p, <<"o", "r">>) -> Match(p + 2, Tok("Op", <<"Or">>, 0))
    [] OTHER -> NoMatch

\* op, lines 82-88: concat, arithmetic, comparison, logical.
Op(s, p) ==
  IF Just(s, p, <<".", ".">>) THEN Match(p + 2, Tok("Op", <<"Concat">>, 0))
  ELSE IF Arithmetic(s, p) # "" THEN Match(p + 1, Tok("Op", <<Arithmetic(s, p)>>, 0))
  ELSE IF Comparison(s, p).ok THEN Comparison(s, p)
  ELSE Logical(s, p)

\* assign, lines 91-96: an optional arithmetic or concat operator, then '='.
\* Assign(Some(op)) carries <<op>>, Assign(None) carries <<>>.
Assign(s, p) ==
  LET a == Arithmetic(s, p)
      q == IF a # "" THEN p + 1 ELSE IF Just(s, p, <<".", ".">>) THEN p + 2 ELSE p
      o == IF a # "" THEN <<a>> ELSE IF q = p + 2 THEN <<"Concat">> ELSE <<>>
  IN IF At(s, q) = "=" THEN Match(q + 1, Tok("Assign", o, 0)) ELSE NoMatch

\* The words of the keyword table, lines 100-120.
Keywords ==
  {<<"f", "n">>, <<"t", "y", "p", "e">>, <<"i", "m", "p", "o", "r", "t">>,
   <<"s", "t", "r", "u", "c", "t">>, <<"e", "n", "u", "m">>,
   <<"s", "e", "l", "f">>, <<"S", "e", "l", "f">>, <<"l", "e", "t">>,
   <<"m", "a", "t", "c", "h">>, <<"w", "i", "t", "h">>, <<"a", "s">>,
   <<"i", "f">>, <<"t", "h", "e", "n">>, <<"e", "l", "s", "e">>,
   <<"f", "o", "r">>, <<"i", "n">>, <<"w", "h", "i", "l", "e">>,
   <<"l", "o", "o", "p">>, <<"b", "r", "e", "a", "k">>,
   <<"c", "o", "n", "t", "i", "n", "u", "e">>,
   <<"r", "e", "t", "u", "r", "n">>}

\* word, lines 98-124: text::unicode::ident() is a character of XID_Start and
\* the characters of XID_Continue after it; the table maps the text.
Word(s, p) ==
  IF At(s, p) \notin Letters THEN NoMatch
  ELSE LET e == RunEnd(s, p + 1, Letters \cup Digits \cup {"_"})
           v == Slice(s, p, e)
       IN Match(e, IF v \in Keywords THEN Tok("Keyword", v, 0)
                   ELSE IF v = <<"_">> THEN Tok("Wildcard", <<>>, 0)
                   ELSE Tok("Ident", v, 0))

\* sym, lines 126-138, in the order of the choice.
Sym(s, p) ==
  CASE Just(s, p, <<":", ":">>) -> Match(p + 2, Tok("Symbol", <<"DoubleColon">>, 0))
    [] Just(s, p, <<":">>) -> Match(p + 1, Tok("Symbol", <<"Colon">>, 0))
    [] Just(s, p, <<"-", ">">>) -> Match(p + 2, Tok("Symbol", <<"RArrow">>, 0))
    [] Just(s, p, <<"<", "-">>) -> Match(p + 2, Tok("Symbol", <<"LArrow">>, 0))
    [] Just(s, p, <<"=", ">">>) -> Match(p + 2, Tok("Symbol", <<"FatArrow">>, 0))
    [] Just(s, p, <<"?">>) -> Match(p + 1, Tok("Symbol", <<"Optional">>, 0))
    [] Just(s, p, <<"|">>) -> Match(p + 1, Tok("Symbol", <<"Pipe">>, 0))
    [] Just(s, p, <<BSL>>) -> Match(p + 1, Tok("Symbol", <<"Backslash">>, 0))
    [] Just(s, p, <<",">>) -> Match(p + 1, Tok("Symbol", <<"Comma">>, 0))
    [] OTHER -> NoMatch

\* sym2, lines 140-146.
Sym2(s, p) ==
  CASE Just(s, p, <<".">>) -> Match(p + 1, Tok("Symbol", <<"Dot">>, 0))
    [] Just(s, p, <<"!">>) -> Match(p + 1, Tok("Symbol", <<"Bang">>, 0))
    [] OTHER -> NoMatch

\* delim, lines 148-156.
Delim(s, p) ==
  CASE At(s, p) = "(" -> Match(p + 1, Tok("Open", <<"Paren">>, 0))
    [] At(s, p) = ")" -> Match(p + 1, Tok("Close", <<"Paren">>, 0))
    [] At(s, p) = "[" -> Match(p + 1, Tok("Open", <<"Bracket">>, 0))
    [] At(s, p) = "]" -> Match(p + 1, Tok("Close", <<"Bracket">>, 0))
    [] At(s, p) = "{" -> Match(p + 1, Tok("Open", <<"Brace">>, 0))
    [] At(s, p) = "}" -> Match(p + 1, Tok("Close", <<"Brace">>, 0))
    [] OTHER -> NoMatch

\* escape, lines 158-166: the character an escape sequence at p (its
\* backslash included) stands for, or "" when there is no escape at p.
Escape(s, p) ==
  IF At(s, p) # BSL THEN ""
  ELSE CASE At(s, p + 1) = BSL -> BSL
         [] At(s, p + 1) = "/" -> "/"
         [] At(s, p + 1) = DQ -> DQ
         [] At(s, p + 1) = "b" -> "BS"
         [] At(s, p + 1) = "r" -> CR
         [] At(s, p + 1) = "n" -> NL
         [] At(s, p + 1) = "t" -> TAB
         [] OTHER -> ""

\* none_of(set).or(escape) at p: where it ends and the character it yields,
\* or end -1.
CharOrEscape(s, p, set) ==
  IF At(s, p) # EOI /\ At(s, p) \notin set THEN [end |-> p + 1, c |-> At(s, p)]
  ELSE IF Escape(s, p) # "" THEN [end |-> p + 2, c |-> Escape(s, p)]
  ELSE [end |-> -1, c |-> ""]

\* char, lines 168-172.
Char(s, p) ==
  LET b == CharOrEscape(s, p + 1, {BSL, SQ}) IN
    IF At(s, p) = SQ /\ b.end >= 0 /\ At(s, b.end) = SQ
    THEN Match(b.end + 1, Tok("Char", <<b.c>>, 0))
    ELSE NoMatch

\* The repeated() of line 175: the characters collected from p on.
RECURSIVE StringBody(_, _, _)
StringBody(s, p, acc) ==
  LET b == CharOrEscape(s, p, {BSL, DQ}) IN
    IF b.end < 0 THEN [end |-> p, text |-> acc]
    ELSE StringBody(s, b.end, Append(acc, b.c))

\* string, lines 174-179.
String(s, p) ==
  LET b == StringBody(s, p + 1, <<>>) IN
    IF At(s, p) = DQ /\ At(s, b.end) = DQ
    THEN Match(b.end + 1, Tok("String", b.text, 0))
    ELSE NoMatch

\* indent, line 187: zero or more spaces, counted. It matches everywhere.
Indent(s, p) ==
  LET e == RunEnd(s, p, {" "}) IN Match(e, Tok("Indent", <<>>, e - p))

\* any().map(Token::Error), line 199.
AnyError(s, p) ==
  IF At(s, p) # EOI THEN Match(p + 1, Tok("Error", <<At(s, p)>>, 0)) ELSE NoMatch

\* choice and or: the first parser that matches, NoMatch if none does.
Choice(rs) ==
  IF \E i \in DOMAIN rs : rs[i].ok
  THEN rs[CHOOSE i \in DOMAIN rs : rs[i].ok /\ \A j \in 1..(i - 1) : ~rs[j].ok]
  ELSE NoMatch

\* A Span::new that takes the range's ends in the wrong order.
SpanNewSwapped(source, start, end) == [start |-> end, end |-> start, source |-> source]

\* Span::new of chumsky::span::Span, as map_with_span calls it.
SpanNew(source, start, end) == [start |-> start, end |-> end, source |-> source]

\* (tok, span), line 200.
Spanned(tok, span) == [tok |-> tok, span |-> span]

\* token without its padding, lines 191-200: the choice in its order, then
\* the fallback; the output is paired with the span of the match.
TokenAt(s, p) ==
  Choice(<<Choice(<<Word(s, p), String(s, p), Char(s, p), Float(s, p),
                    IntLit(s, p), Sym(s, p), Assign(s, p), Op(s, p), Sym2(s, p),
                    Delim(s, p), Indent(s, p)>>),
           AnyError(s, p)>>)

\* One item of comment, lines 181-184: '#', then newline().not() repeated,
\* all padded. not() consumes nothing, so unless a line break follows the '#'
\* at once the repetition makes no progress ("stall"). "fail": no '#' here.
CommentItem(s, p) ==
  LET q == SkipWs(s, p) IN
    IF At(s, q) # "#" THEN [st |-> "fail", end |-> p]
    ELSE IF At(s, q + 1) \notin Newlines THEN [st |-> "stall", end |-> q + 1]
    ELSE [st |-> "ok", end |-> SkipWs(s, q + 1)]

\* comment, lines 181-185: zero or more items.
RECURSIVE Comment(_, _)
Comment(s, p) ==
  LET c == CommentItem(s, p) IN
    IF c.st = "ok" THEN Comment(s, c.end)
    ELSE IF c.st = "stall" THEN c
    ELSE [st |-> "ok", end |-> p]

\* One iteration of the repeated() of line 205 at offset p: comment, the
\* padded token, comment. "item": the token was collected and the scan is at
\* `end`; "stall": a repetition made no progress; "fail": the item failed and
\* the repetition is over.
Iterate(s, p, source) ==
  LET c1 == Comment(s, p)
      q == SkipWs(s, c1.end)
      t == TokenAt(s, q)
      c2 == Comment(s, SkipWs(s, t.end))
      none == Spanned(NoMatch.tok, SpanNew(source, 0, 0))
  IN IF c1.st = "stall" THEN [st |-> "stall", end |-> p, item |-> none]
     ELSE IF ~t.ok THEN [st |-> "fail", end |-> p, item |-> none]
     ELSE IF c2.st = "stall" \/ c2.end = p
          THEN [st |-> "stall", end |-> p, item |-> none]
     ELSE [st |-> "item", end |-> c2.end,
           item |-> Spanned(t.tok, SpanNew(source, q, t.end))]

\* No parse was started yet.
LexIdle ==
  [status |-> "idle", text |-> <<>>, source |-> Id(0, 0), pos |-> 0, tokens |-> <<>>]

\* ------------------------------------------------- concurrent specification
Quiescent == \A t \in Threads : loc[t].pc = "idle"

Init ==
  /\ arena = ArenaNew("a", N)
  /\ loc = [t \in Threads |-> IdleFrame]
  /\ hist = <<>>
  /\ calls = 0
  /\ got = NoGet
  /\ torn = NotTorn
  /\ other = ArenaNew("b", N)
  /\ ohist = <<>>
  /\ cache = FileCacheNew
  /\ cloc = [t \in Resolvers |-> IdleResolve]
  /\ fs = Paths
  /\ chist = <<>>
  /\ okreads = [p \in Paths |-> 0]
  /\ succ = [p \in Paths |-> 0]
  /\ first = [p \in {} |-> Id(0, 0)]
  /\ failed = {}
  /\ last = NoResolve
  /\ lex = LexIdle
  /\ cgot = NoCacheCall

\* A thread steps its insert call by one atomic step.
Advance(t) ==
  LET r == InsertStep(arena, loc[t]) IN
    /\ arena' = r.a
    /\ loc' = [loc EXCEPT ![t] = r.l]
    /\ UNCHANGED <<hist, calls, got, torn, twoVars, cacheVars, lexVars, getVars>>

\* Thread t calls insert with the next value; the call's first atomic step is
\* the fetch_add.
FetchAdd(t) ==
  /\ ~torn.done
  /\ loc[t].pc = "idle"
  /\ calls < MaxInserts
  /\ LET r == StepFetchAdd(arena, loc[t], calls) IN
       /\ arena' = r.a
       /\ loc' = [loc EXCEPT ![t] = r.l]
  /\ calls' = calls + 1
  /\ UNCHANGED <<hist, got, torn, twoVars, cacheVars, lexVars, getVars>>

Load(t) == loc[t].pc = "load" /\ Advance(t)

ClosureSwap(t) == loc[t].pc = "closure" /\ loc[t].v > arena.cap /\ Advance(t)

ClosureBump(t) == loc[t].pc = "closure" /\ loc[t].v <= arena.cap /\ Advance(t)

Push(t) == loc[t].pc = "push" /\ Advance(t)

CasOk(t) == loc[t].pc = "cas" /\ arena.next = loc[t].v /\ Advance(t)

CasRetry(t) == loc[t].pc = "cas" /\ arena.next # loc[t].v /\ Advance(t)

LoadCurrent(t) == loc[t].pc = "loadcur" /\ Advance(t)

Write(t) == loc[t].pc = "write" /\ Advance(t)

\* The call reads rest.len(), builds the Id and returns.
Return(t) ==
  /\ loc[t].pc = "len"
  /\ LET r == StepLen(arena, loc[t]) IN
       /\ hist' = Append(hist, Done(r.l))
       /\ loc' = [loc EXCEPT ![t] = IdleFrame]
  /\ UNCHANGED <<arena, calls, got, torn, twoVars, cacheVars, lexVars, getVars>>

\* get on the Id the k-th finished insert returned, once no insert is running.
Get ==
  /\ ~torn.done
  /\ Quiescent
  /\ \E k \in 1..Len(hist) :
       \E out \in GetOutcomes(arena, hist[k].id) :
         got' = [k |-> k, id |-> hist[k].id, out |-> out]
  /\ UNCHANGED <<arena, loc, hist, calls, torn, twoVars, cacheVars, lexVars, getVars>>

\* The arena is dropped; drop takes &mut self, so no insert is running.
Drop ==
  /\ ~torn.done
  /\ Quiescent
  /\ torn' = DropArena(arena)
  /\ UNCHANGED <<arena, loc, hist, calls, got, twoVars, cacheVars, lexVars, getVars>>

Next ==
  \/ \E t \in Threads :
       \/ FetchAdd(t)
       \/ Load(t)
       \/ ClosureSwap(t)
       \/ ClosureBump(t)
       \/ Push(t)
       \/ CasOk(t)
       \/ CasRetry(t)
       \/ LoadCurrent(t)
       \/ Write(t)
       \/ Return(t)
  \/ Get
  \/ Drop

Spec == Init /\ [][Next]_vars

\* ---------------------------------------------- single-threaded specification
\* One thread owns the arena: each insert call runs alone, from its fetch_add
\* to its return (the test `bruh`, with get and the drop at any point).
SeqInsert ==
  /\ ~torn.done
  /\ calls < MaxSeqInserts
  /\ LET r == Insert(arena, calls) IN
       /\ arena' = r.a
       /\ hist' = Append(hist, Done(r.l))
  /\ calls' = calls + 1
  /\ UNCHANGED <<loc, got, torn, twoVars, cacheVars, lexVars, getVars>>

NextSeq ==
  \/ SeqInsert
  \/ Get
  \/ Drop

SpecSeq == Init /\ [][NextSeq]_vars

\* ------------------------------------------------------ two arena instances
\* The values the second arena is given: apart from those of the first.
OtherValue(j) == 100 + j

OtherInsert ==
  /\ Len(ohist) < MaxOtherInserts
  /\ LET r == Insert(other, OtherValue(Len(ohist))) IN
       /\ other' = r.a
       /\ ohist' = Append(ohist, Done(r.l))
  /\ UNCHANGED <<arena, loc, hist, calls, got, torn, cacheVars, lexVars, getVars>>

\* other.get(id) with an Id that the first arena's insert returned.
CrossGet ==
  /\ \E k \in 1..Len(hist) :
       \E out \in GetOutcomes(other, hist[k].id) :
         got' = [k |-> k, id |-> hist[k].id, out |-> out]
  /\ UNCHANGED <<arena, loc, hist, calls, torn, twoVars, cacheVars, lexVars, getVars>>

NextTwo ==
  \/ SeqInsert
  \/ OtherInsert
  \/ CrossGet

SpecTwo == Init /\ [][NextTwo]_vars

\* ------------------------------------------------- FileCache specification
\* Threads call resolve on paths while files appear and disappear.

\* A resolve call returned res to its caller.
Returned(t, L, res) ==
  /\ cloc' = [cloc EXCEPT ![t] = IdleResolve]
  /\ last' = [n |-> last.n + 1, path |-> L.path, ok |-> res.ok, id |-> res.id,
              read |-> L.read]
  /\ succ' = IF res.ok THEN [succ EXCEPT ![L.path] = @ + 1] ELSE succ
  /\ first' = IF res.ok /\ L.path \notin DOMAIN first
              THEN [q \in (DOMAIN first) \cup {L.path} |->
                      IF q = L.path THEN res.id ELSE first[q]]
              ELSE first
  /\ failed' = IF res.ok THEN failed ELSE failed \cup {L.path}

\* Thread t calls resolve(p).
Call(t, p) ==
  /\ cloc[t].pc = "idle"
  /\ last.n + Cardinality({u \in Resolvers : cloc[u].pc # "idle"}) < MaxResolves
  /\ cloc' = [cloc EXCEPT ![t] = StepCall(p)]
  /\ UNCHANGED <<cache, fs, chist, okreads, succ, first, failed, last, arenaVars, twoVars, lexVars, getVars>>

\* Thread t, blocked in paths.write(), is granted the write guard.
Acquire(t) ==
  /\ cloc[t].pc = "wait"
  /\ CanLock(cache)
  /\ LET r == StepAcquire(cache, t, cloc[t].path) IN
       /\ cache' = r.c
       /\ cloc' = [cloc EXCEPT ![t] = r.l]
  /\ UNCHANGED <<fs, chist, okreads, succ, first, failed, last, arenaVars, twoVars, lexVars, getVars>>

\* The path is in the table: the stored id is returned, no file is read.
Hit(t) ==
  /\ cloc[t].pc = "locked"
  /\ cloc[t].path \in DOMAIN cache.paths
  /\ LET r == StepHit(cache, cloc[t]) IN
       /\ cache' = r.c
       /\ Returned(t, r.l, r.res)
  /\ UNCHANGED <<fs, chist, okreads, arenaVars, twoVars, lexVars, getVars>>

\* The path is not in the table and its file is read.
ReadOk(t) ==
  /\ cloc[t].pc = "locked"
  /\ cloc[t].path \notin DOMAIN cache.paths
  /\ cloc[t].path \in fs
  /\ LET r == StepReadOk(cache, cloc[t]) IN
       /\ cache' = r.c
       /\ cloc' = [cloc EXCEPT ![t] = r.l]
  /\ okreads' = [okreads EXCEPT ![cloc[t].path] = @ + 1]
  /\ UNCHANGED <<fs, chist, succ, first, failed, last, arenaVars, twoVars, lexVars, getVars>>

\* The path is not in the table and its file cannot be read.
ReadFail(t) ==
  /\ cloc[t].pc = "locked"
  /\ cloc[t].path \notin DOMAIN cache.paths
  /\ cloc[t].path \notin fs
  /\ LET r == StepReadFail(cache, cloc[t]) IN
       /\ cache' = r.c
       /\ Returned(t, r.l, r.res)
  /\ UNCHANGED <<fs, chist, okreads, arenaVars, twoVars, lexVars, getVars>>

\* The Source is stored, the path recorded and the new id returned.
Store(t) ==
  /\ cloc[t].pc = "store"
  /\ LET r == StepStore(cache, cloc[t]) IN
       /\ cache' = r.c
       /\ chist' = Append(chist, r.done)
       /\ Returned(t, r.l, r.res)
  /\ UNCHANGED <<fs, okreads, arenaVars, twoVars, lexVars, getVars>>

\* The environment: the file at p appears or disappears.
FsChange(p) ==
  /\ fs' = IF p \in fs THEN fs \ {p} ELSE fs \cup {p}
  /\ UNCHANGED <<cache, cloc, chist, okreads, succ, first, failed, last,
                 arenaVars, twoVars, lexVars, getVars>>

NextCache ==
  \/ \E t \in Resolvers :
       \/ \E p \in Paths : Call(t, p)
       \/ Acquire(t)
       \/ Hit(t)
       \/ ReadOk(t)
       \/ ReadFail(t)
       \/ Store(t)
  \/ \E p \in Paths : FsChange(p)

SpecCache == Init /\ [][NextCache]_vars

\* ------------------------------------------ the cache used by one thread
\* The paths resolved one after the other: 1, 2, ...
SeqPaths == 1..MaxSeqPaths

\* resolve(p) on a path resolved before or on the next new path; the file can
\* be read.
SeqResolve(p) ==
  /\ cache.lock = 0
  /\ p <= Cardinality(DOMAIN cache.paths) + 1
  /\ LET r == ResolveAlone(cache, p) IN
       /\ cache' = r.c
       /\ chist' = chist \o r.new
       /\ cgot' = [op |-> "resolve", path |-> p, id |-> r.id, out |-> 0]
  /\ UNCHANGED <<cloc, fs, okreads, succ, first, failed, last, arenaVars,
                 twoVars, lexVars>>

\* get(id) with the id resolve returned for p.
CacheGet(p) ==
  /\ p \in DOMAIN cache.paths
  /\ \E out \in CacheGetOutcomes(cache, cache.paths[p]) :
       cgot' = [op |-> "get", path |-> p, id |-> cache.paths[p], out |-> out]
  /\ UNCHANGED <<arenaVars, twoVars, cacheVars, lexVars>>

NextCacheSeq == \E p \in SeqPaths : SeqResolve(p) \/ CacheGet(p)

SpecCacheSeq == Init /\ [][NextCacheSeq]_vars

\* ------------------------------------------------------ lexer specification
\* The characters the inputs are drawn from.
Alphabet == {"x", "1", "0", ".", "+", "=", "<", DQ, "@", "#", " ", NL}

RECURSIVE TextsOfLen(_)
TextsOfLen(n) ==
  IF n = 0 THEN {<<>>}
  ELSE {Append(w, c) : w \in TextsOfLen(n - 1), c \in Alphabet}

\* Longer texts of interest.
Samples ==
  {<<DQ, "x", DQ, "@", DQ, "y", DQ>>,
   <<"x", " ", "+", "=", " ", "1">>,
   <<"x", " ", ".", ".", "=", " ", "1">>,
   <<"1", ".", " ", "x">>,
   <<"x", " ", "=", "=", " ", "1">>,
   <<"x", " ", "<", "=", " ", "1">>,
   <<"x", " ", ">", "=", " ", "1">>,
   <<"x", " ", "!", "=", " ", "1">>,
   <<"x", " ", ">", " ", "1">>,
   <<"a", "n", "d">>, <<"o", "r">>, <<"n", "o", "t">>,
   <<"x", " ", "a", "n", "d", " ", "n", "o", "t", " ", "y">>,
   <<"i", "f", " ", "x">>,
   <<"x", NL, " ", " ", "y">>,
   <<"x", " ", "#", " ", "c", NL, "y">>,
   <<"x", " ", "#", NL, "y">>,
   <<"9", "2", "2", "3", "3", "7", "2", "0", "3", "6", "8", "5", "4", "7",
     "7", "5", "8", "0", "7", " ", "x">>,
   <<"9", "2", "2", "3", "3", "7", "2", "0", "3", "6", "8", "5", "4", "7",
     "7", "5", "8", "0", "8", " ", "x">>,
   <<"1", "0", "0", "0", "0", "0", "0", "0", "0", "0", "0", "0", "0", "0",
     "0", "0", "0", "0", "0", "0", "+", "1">>}

Inputs == UNION {TextsOfLen(n) : n \in 0..MaxLen} \cup Samples

\* The Ids of the sources that are scanned.
SourceIds == {Id(0, 1), Id(0, 3)}

\* What a repetition that makes no progress does: chumsky's debug assertion
\* panics; without debug assertions the loop never ends.
StallOutcomes == {"panic", "hang"}

\* One step of the parser of lines 203-208 on the lexer state L: one
\* iteration of repeated(); when the item fails, the collected tokens are the
\* output if only whitespace is left (padded, end), else the parse is an
\* error.
LexStep(L, stall) ==
  LET r == Iterate(L.text, L.pos, L.source) IN
    IF r.st = "item"
    THEN [L EXCEPT !.pos = r.end, !.tokens = Append(L.tokens, r.item)]
    ELSE IF r.st = "stall" THEN [L EXCEPT !.status = stall]
    ELSE IF SkipWs(L.text, L.pos) = Len(L.text) THEN [L EXCEPT !.status = "done"]
    ELSE [L EXCEPT !.status = "error"]

\* lexer().parse_with_state(code.with_context(source), ..) is called on a text
\* and the Id of its source.
Lex ==
  /\ lex.status = "idle"
  /\ \E text \in Inputs, source \in SourceIds :
       lex' = [status |-> "scan", text |-> text, source |-> source, pos |-> 0,
               tokens |-> <<>>]
  /\ UNCHANGED <<arenaVars, twoVars, cacheVars, getVars>>

\* The parser runs one iteration.
Repeated ==
  /\ lex.status = "scan"
  /\ \E stall \in StallOutcomes : lex' = LexStep(lex, stall)
  /\ UNCHANGED <<arenaVars, twoVars, cacheVars, getVars>>

NextLex == Lex \/ Repeated

SpecLex == Init /\ [][NextLex]_vars

\* ==================================================================== claims
\* The cell an insert call wrote.
CellOf(h) == <<h.pseg, h.idx>>

\* The segments allocated so far, in the order in which they became current:
\* Arena::new installs the first, every swap of the closure the next.
EverCurrent(A) == [i \in 1..A.nalloc |-> <<A.inst, i - 1>>]

\* The insert calls that reset the counter: fetch_update returned a v > N.
Resets(A, H) == {k \in 1..Len(H) : H[k].idx > A.cap}

\* C1: concurrent insert calls never get the same physical slot (segment and
\* index), and hence never return equal Ids.
C1_DistinctSlots ==
  \A i, j \in 1..Len(hist) :
    i # j => CellOf(hist[i]) # CellOf(hist[j]) /\ hist[i].id # hist[j].id

\* C2: the seg field of the Id an insert returned names the segment the call
\* wrote into: once all inserts have returned, get(id) resolves to that
\* segment (and so to the value written there).
C2_IdSegIsWrittenSeg ==
  Quiescent =>
    \A k \in 1..Len(hist) :
      /\ hist[k].id.seg <= Len(arena.rest)
      /\ GetSegment(arena, hist[k].id) = hist[k].pseg

\* C3: every exhaustion of the current segment allocates exactly one fresh
\* segment and retires the previous one exactly once; the retired list is in
\* the order in which the segments were current. Stated once no insert is
\* running: one segment per counter reset, all but the current one retired,
\* in order.
C3_OneRotationPerExhaustion ==
  Quiescent =>
    /\ arena.nalloc - 1 = Cardinality(Resets(arena, hist))
    /\ Append(arena.rest, arena.current) = EverCurrent(arena)

\* C4: single-threaded, get on the k-th returned id yields the k-th inserted
\* value, at every later point of the sequence.
C4_GetReturnsInserted ==
  got.k # 0 => got.out = hist[got.k].val

\* C5: in each segment generation the slot indices handed out are exactly
\* 0..N-1, each to one insert call; a segment is retired only after all its N
\* slots were handed out.
SlotsHandedOut(H, seg) == {H[k].idx : k \in {i \in 1..Len(H) : H[i].pseg = seg}}

C5_SlotsAreZeroToNMinusOne ==
  /\ \A k \in 1..Len(hist) : hist[k].idx \in 0..(arena.cap - 1)
  /\ \A i, j \in 1..Len(hist) : i # j => CellOf(hist[i]) # CellOf(hist[j])
  /\ \A r \in 1..Len(arena.rest) :
       SlotsHandedOut(hist, arena.rest[r]) = 0..(arena.cap - 1)

\* C6: teardown never runs T's destructor on a slot no insert call wrote.
C6_NoDropOfUnwritten ==
  torn.done =>
    \A i \in 1..Len(torn.drops) : torn.drops[i] \in DOMAIN arena.mem

\* C7: teardown runs T's destructor exactly once for every inserted value and
\* frees every segment ever allocated exactly once.
Count(seq, x) == Cardinality({i \in 1..Len(seq) : seq[i] = x})

C7_DropsEveryValueOnce ==
  torn.done =>
    /\ \A k \in 1..Len(hist) : Count(torn.drops, CellOf(hist[k])) = 1
    /\ \A i \in 1..arena.nalloc : Count(torn.frees, EverCurrent(arena)[i]) = 1

\* C8: an Id from one arena does not resolve against another arena of the
\* same element type: get there never returns one of that arena's values.
C8_IdBoundToItsArena ==
  got.k # 0 => got.out \notin {ohist[j].val : j \in 1..Len(ohist)}

\* The Source entries the cache's arena holds for path p.
Entries(p) == {k \in 1..Len(chist) : chist[k].val = Content(p)}

\* C9: a resolve of a path that was resolved successfully before returns the
\* id of that first successful resolve and reads no file; every path is read
\* successfully at most once and has at most one Source entry in the arena.
C9_ResolveIsMemoized ==
  /\ \A p \in Paths : okreads[p] <= 1 /\ Cardinality(Entries(p)) <= 1
  /\ (last.n # 0 /\ last.ok) =>
       /\ last.id = first[last.path]
       /\ succ[last.path] >= 2 => ~last.read

\* A resolve of an already resolved path has returned.
C9_Witness == last.n # 0 /\ last.ok /\ succ[last.path] >= 2

\* A resolve call returns an error in this step.
ReturnsError == last'.n # last.n /\ ~last'.ok

\* C10: a failed read is returned as an error and leaves the cache as it was
\* (no path entry, no arena entry, the lock released); it happens only while
\* the file is unreadable, so a later resolve of the path reads again and
\* returns the id under which the Source is then stored.
C10_FailedReadLeavesCacheUnchanged ==
  /\ [][ReturnsError =>
          /\ cache'.paths = cache.paths
          /\ cache'.files = cache.files
          /\ cache'.lock = 0
          /\ last'.read
          /\ last'.path \notin fs]_vars
  /\ []((last.n # 0 /\ last.ok /\ succ[last.path] = 1) =>
          /\ last.read
          /\ last.path \in DOMAIN cache.paths
          /\ cache.paths[last.path] = last.id
          /\ \E k \in Entries(last.path) : chist[k].id = last.id)

\* A resolve of a path succeeded, with a read, after a resolve of it failed.
C10_Witness == last.n # 0 /\ last.ok /\ last.read /\ last.path \in failed

\* Thread t holds the write guard: it is between paths.write() and its return.
InCritical(t) == cloc[t].pc \in {"locked", "store"}

\* C11: the lookup, read, insert and table update of a resolve call run as one
\* critical section on the path table: no two threads are inside it at once,
\* and concurrent resolves of a path get one id, from one successful read and
\* one Source entry.
C11_ResolveIsOneCriticalSection ==
  /\ \A t, u \in Resolvers : (InCritical(t) /\ InCritical(u)) => t = u
  /\ \A t \in Resolvers : InCritical(t) <=> cache.lock = t
  /\ \A p \in Paths :
       /\ okreads[p] <= 1
       /\ succ[p] >= 1 =>
            /\ okreads[p] = 1
            /\ Cardinality(Entries(p)) = 1
            /\ p \in DOMAIN cache.paths /\ cache.paths[p] = first[p]
  /\ (last.n # 0 /\ last.ok) => last.id = first[last.path]

\* Two threads are inside resolve of the same path at once: one has read the
\* file and is about to store it, the other is blocked in paths.write().
C11_Witness ==
  \E t, u \in Resolvers :
    /\ cloc[t].pc = "store"
    /\ cloc[u].pc = "wait"
    /\ cloc[u].path = cloc[t].path

\* ------------------------------------------------------------ lexer claims
\* The run of the lexer is over: it returned or it stopped making progress.
Ended == lex.status \notin {"idle", "scan"}

\* The tokens collected so far, without their spans.
Toks == [i \in 1..Len(lex.tokens) |-> lex.tokens[i].tok]

\* The run on `text`, once over, returned exactly the tokens `toks`.
LexesTo(text, toks) ==
  (Ended /\ lex.text = text) => (lex.status = "done" /\ Toks = toks)

\* No rule of the grammar other than the error fallback starts at offset q:
\* not a token, not an indentation of one space or more, not a comment, not
\* the end of the text.
StartsNoToken(s, q) ==
  /\ At(s, q) \notin {EOI, "#", " "}
  /\ ~\E r \in {Word(s, q), String(s, q), Char(s, q), Float(s, q), IntLit(s, q),
                 Sym(s, q), Assign(s, q), Op(s, q), Sym2(s, q), Delim(s, q)} : r.ok

\* C12: a character that starts no valid token yields one error token that
\* carries the character, and the scan goes on after it: the scan does not
\* stop at such a character, and "x"@"y" lexes to the string x, an error
\* token for @ and the string y.
C12_InvalidCharIsErrorToken ==
  /\ lex.status \in StallOutcomes =>
       ~StartsNoToken(lex.text, SkipWs(lex.text, lex.pos))
  /\ \A i \in 1..Len(lex.tokens) :
       StartsNoToken(lex.text, lex.tokens[i].span.start) =>
         lex.tokens[i].tok = Tok("Error", <<At(lex.text, lex.tokens[i].span.start)>>, 0)
  /\ LexesTo(<<DQ, "x", DQ, "@", DQ, "y", DQ>>,
             <<Tok("String", <<"x">>, 0), Tok("Error", <<"@">>, 0),
               Tok("String", <<"y">>, 0)>>)

\* C13: `x += 1` lexes to the identifier x, the assignment token carrying
\* Add and the integer 1; an arithmetic operator or `..` immediately
\* followed by `=` is one assignment token carrying the operator, and a bare
\* `=` is the assignment token carrying no operator.
C13_CompoundAssignment ==
  /\ LexesTo(<<"x", " ", "+", "=", " ", "1">>,
             <<Tok("Ident", <<"x">>, 0), Tok("Assign", <<"Add">>, 0),
               Tok("Int", <<"1">>, 0)>>)
  /\ \A i \in 1..Len(lex.tokens) :
       LET q == lex.tokens[i].span.start
           a == Arithmetic(lex.text, q)
       IN /\ (a # "" /\ At(lex.text, q + 1) = "=") =>
               lex.tokens[i].tok = Tok("Assign", <<a>>, 0)
          /\ (Just(lex.text, q, <<".", ".">>) /\ At(lex.text, q + 2) = "=") =>
               lex.tokens[i].tok = Tok("Assign", <<"Concat">>, 0)
          /\ (At(lex.text, q) = "=" /\ At(lex.text, q + 1) \notin {"=", ">"}) =>
               lex.tokens[i].tok = Tok("Assign", <<>>, 0)

\* C14: `1.` lexes to the integer 1 followed by a standalone Dot symbol; a
\* digit run followed by a '.' that no digit follows is an integer token and
\* then, unless a second '.' follows, the Dot symbol.
C14_IntThenDot ==
  /\ LexesTo(<<"1", ".">>, <<Tok("Int", <<"1">>, 0), Tok("Symbol", <<"Dot">>, 0)>>)
  /\ \A i \in 1..Len(lex.tokens) :
       LET q == lex.tokens[i].span.start
           e == IntEnd(lex.text, q)
       IN (e >= 0 /\ At(lex.text, e) = "." /\ IntEnd(lex.text, e + 1) < 0) =>
            /\ lex.tokens[i].tok.kind \in {"Int", "Error"}
            /\ lex.tokens[i].tok.text = Slice(lex.text, q, e)
            /\ (i < Len(lex.tokens) /\ At(lex.text, e + 1) # ".") =>
                 /\ lex.tokens[i + 1].tok = Tok("Symbol", <<"Dot">>, 0)
                 /\ lex.tokens[i + 1].span.start = e

\* C15: every token's span satisfies 0 <= start <= end <= length of the text
\* and carries the Id of the source being scanned.
C15_SpansWithinSource ==
  \A i \in 1..Len(lex.tokens) :
    /\ 0 <= lex.tokens[i].span.start
    /\ lex.tokens[i].span.start <= lex.tokens[i].span.end
    /\ lex.tokens[i].span.end <= Len(lex.text)
    /\ lex.tokens[i].span.source = lex.source

\* Two tokens were collected from a text with padding, the second one
\* starting after the first and ending at the end of the text.
C15_Witness ==
  /\ Len(lex.tokens) >= 2
  /\ lex.source = Id(0, 3)
  /\ lex.tokens[2].span.start > lex.tokens[1].span.end
  /\ lex.tokens[2].span.end > lex.tokens[2].span.start
  /\ lex.tokens[2].span.end = Len(lex.text)

\* C16: a run of k >= 1 leading spaces at a position where a token would
\* start is emitted as one indentation token carrying k: when the text
\* begins with spaces, the first token is the Indent over that run, and an
\* Indent token carries the length of its span.
C16_IndentCarriesRunLength ==
  /\ (At(lex.text, 0) = " " /\ Len(lex.tokens) >= 1) =>
       /\ lex.tokens[1].tok = Tok("Indent", <<>>, RunEnd(lex.text, 0, {" "}))
       /\ lex.tokens[1].span.start = 0
       /\ lex.tokens[1].span.end = RunEnd(lex.text, 0, {" "})
  /\ \A i \in 1..Len(lex.tokens) :
       lex.tokens[i].tok.kind = "Indent" =>
         lex.tokens[i].tok.n = lex.tokens[i].span.end - lex.tokens[i].span.start

\* The iteration of the scan at offset p stops making progress inside a
\* comment, before or after the token.
StallsInComment(s, p) ==
  \/ Comment(s, p).st = "stall"
  \/ LET t == TokenAt(s, SkipWs(s, Comment(s, p).end))
     IN t.ok /\ Comment(s, SkipWs(s, t.end)).st = "stall"

\* C17: a `#` starts a comment that extends to the end of the line; the
\* comment is consumed and produces no token, and the tokens before it and on
\* the following lines are emitted as if it were absent: the scan does not
\* stop in a comment, no token starts at a `#`, and `x # c`, newline, `y`
\* lexes to the identifiers x and y.
C17_CommentIsSkipped ==
  /\ lex.status \in StallOutcomes => ~StallsInComment(lex.text, lex.pos)
  /\ \A i \in 1..Len(lex.tokens) : At(lex.text, lex.tokens[i].span.start) # "#"
  /\ LexesTo(<<"x", " ", "#", " ", "c", NL, "y">>,
             <<Tok("Ident", <<"x">>, 0), Tok("Ident", <<"y">>, 0)>>)

\* C18: each of the comparison spellings != == <= >= > < lexes to exactly
\* one comparison-operator token, and `==` to one Eq token, not to assignment
\* tokens: a token that starts at one of the spellings (and not at the arrow
\* `<-`) is the comparison operator over the whole spelling, and `x == 1`
\* lexes to the identifier x, Eq and the integer 1.
C18_ComparisonIsOneToken ==
  /\ \A i \in 1..Len(lex.tokens) :
       LET q == lex.tokens[i].span.start
           c == Comparison(lex.text, q)
       IN (c.ok /\ ~Sym(lex.text, q).ok) =>
            (lex.tokens[i].tok = c.tok /\ lex.tokens[i].span.end = c.end)
  /\ LexesTo(<<"x", " ", "=", "=", " ", "1">>,
             <<Tok("Ident", <<"x">>, 0), Tok("Op", <<"Eq">>, 0),
               Tok("Int", <<"1">>, 0)>>)

\* C19: the words `and`, `or` and `not` lex to the logical-operator tokens
\* And, Or and Not, not to identifier tokens: a token that starts at one of
\* these words (the whole word, not a longer one) is the logical operator.
C19_LogicalWordsAreOperators ==
  \A i \in 1..Len(lex.tokens) :
    LET q == lex.tokens[i].span.start
        l == Logical(lex.text, q)
    IN (l.ok /\ Word(lex.text, q).end = l.end) =>
         (lex.tokens[i].tok = l.tok /\ lex.tokens[i].span.end = l.end)

\* C20: an integer literal whose value does not fit i64 lexes to one error
\* token carrying the literal's digits, and the scan continues with the
\* tokens after it instead of aborting: a token that starts at such a literal
\* is the error token over its digits, and 9223372036854775808 followed by a
\* space and x lexes to that error token and the identifier x.
C20_IntOverflowIsErrorToken ==
  /\ \A i \in 1..Len(lex.tokens) :
       LET q == lex.tokens[i].span.start
           e == IntEnd(lex.text, q)
       IN (e >= 0 /\ At(lex.text, e) # "." /\ ~ParsesAsI64(Slice(lex.text, q, e))) =>
            lex.tokens[i].tok = Tok("Error", Slice(lex.text, q, e), 0)
  /\ LexesTo(<<"9", "2", "2", "3", "3", "7", "2", "0", "3", "6", "8", "5", "4",
               "7", "7", "5", "8", "0", "8", " ", "x">>,
             <<Tok("Error", <<"9", "2", "2", "3", "3", "7", "2", "0", "3", "6",
                              "8", "5", "4", "7", "7", "5", "8", "0", "8">>, 0),
               Tok("Ident", <<"x">>, 0)>>)

\* C21: lexing any finite input terminates, and every token the lexer emits
\* consumes at least one character, so the scan position strictly advances
\* with each token, also at characters that start no valid token and at the
\* end of the input: no run ends in a repetition that makes no progress, every
\* token's span is non-empty, and the tokens follow one another in the text.
C21_LexingTerminatesAndAdvances ==
  /\ lex.status \notin StallOutcomes
  /\ \A i \in 1..Len(lex.tokens) :
       /\ lex.tokens[i].span.end > lex.tokens[i].span.start
       /\ i > 1 => lex.tokens[i].span.start >= lex.tokens[i - 1].span.end

\* C22: every Arena::insert writes its value to a slot index strictly less
\* than the segment capacity N, whether it rotates the segment or not: the
\* index an insert call wrote at and the idx of the Id it returned are below
\* N, and no cell outside the N slots of a segment was written.
C22_WritesBelowCapacity ==
  /\ \A k \in 1..Len(hist) : hist[k].idx < N /\ hist[k].id.idx < N
  /\ \A cell \in DOMAIN arena.mem : cell[2] < N

\* C23: for any sequence of successful resolve calls on distinct paths, more
\* than the cache arena's segment capacity of 8 included, distinct paths
\* receive distinct ids and get(resolve(p)) returns the content read for p.
C23_CacheGetReturnsContent ==
  /\ \A p, q \in DOMAIN cache.paths : p # q => cache.paths[p] # cache.paths[q]
  /\ cgot.op = "get" => cgot.out = Content(cgot.path)

====
